---- MODULE Spec2Model ----
(***************************************************************************)
(* A model of toytcp's TCP core (src/src/tcp.rs): the socket registry, the *)
(* single-cell event mailbox, the blocking user calls, the receive worker  *)
(* with its per-state handlers, and the retransmission timer.  Two hosts   *)
(* each run one TCP object; segments travel over a network that can delay, *)
(* reorder, duplicate and lose them.                                       *)
(***************************************************************************)
EXTENDS Integers, Sequences, FiniteSets, TLC

VARIABLES
    sockets,    \* sockets[h]: the registry of host h, SockID -> Socket
    event,      \* event[h]: the mailbox cell of event_condvar, None or a TCPEvent
    pub,        \* pub[h]: events the worker holding the registry lock has still to publish
    poisoned,   \* poisoned[h]: a thread panicked while holding the registry lock
    net,        \* the segments in flight
    th,         \* th[t]: the user thread t: its call, its position in it, its locals
    h_sent,     \* history: the bytes passed to send calls, per host
    h_recvd,    \* history: the bytes returned by recv calls, per host
    h_wrote,    \* history: per host, the sequence numbers process_payload copied into a buffer
    h_tx,       \* history: per host, how often each queued segment was put on the wire
    h_acked,    \* history: per host, the number of Acked events published
    h_pruned,   \* history: per host, the number of queue entries removed as acknowledged
    h_dropped   \* history: per host, the payload bytes of entries removed at the attempt cap

vars == <<sockets, event, pub, poisoned, net, th,
          h_sent, h_recvd, h_wrote, h_tx, h_acked, h_pruned, h_dropped>>

hist == <<h_sent, h_recvd, h_wrote, h_tx, h_acked, h_pruned, h_dropped>>

----------------------------------------------------------------------------
(* Bounds of the model *)

\* the payload cap per segment (1460 in the source, scaled down)
MSS == 1
\* the length of a socket's receive buffer, and so the window it first advertises
BufSize == 3
\* the number of bytes the sending thread passes to send
MaxData == 3
\* the number of ephemeral ports of PORT_RANGE that are modelled
NPorts == 2

(* Program constants *)
MAX_TRANSMITTION == 5
RETRANSMITTION_TIMEOUT == 3
UNDETERMINED_PORT == 0
PortLo == 40000

UNDETERMINED_IP_ADDR == "0.0.0.0"
PORT_RANGE == PortLo .. (PortLo + NPorts - 1)

Hosts == {"c", "s"}
Threads == {"u1", "u2", "u3"}
\* Option: None is the empty set, Some(x) the set of x alone
None == {}
Some(x) == {x}
The(opt) == CHOOSE x \in opt : TRUE

SYN == "SYN"
ACK == "ACK"
FIN == "FIN"

\* the values rng.gen_range(1..1 << 31) yields in the model, per host
InitialSeq(h) == IF h = "c" THEN 100 ELSE 300
\* the bytes handed to send: byte i of the stream has the value i, never 0
Data == [i \in 1 .. MaxData |-> i]

Min(a, b) == IF a < b THEN a ELSE b
Max(a, b) == IF a > b THEN a ELSE b

RECURSIVE SumLen(_)
SumLen(q) == IF q = <<>> THEN 0 ELSE Len(Head(q).packet.payload) + SumLen(Tail(q))

----------------------------------------------------------------------------
(* socket.rs and packet.rs: the record types and send_tcp_packet *)

SockID(la, ra, lp, rp) ==
    [local_addr |-> la, remote_addr |-> ra, local_port |-> lp, remote_port |-> rp]

Socket_new(la, ra, lp, rp, status) ==
    [sock_id |-> SockID(la, ra, lp, rp),
     status |-> status,
     send_param |-> [unacked_seq |-> 0, initial_seq |-> 0, next |-> 0, window |-> BufSize],
     recv_param |-> [initial_seq |-> 0, next |-> 0, window |-> BufSize, tail |-> 0],
     recv_buffer |-> [i \in 1 .. BufSize |-> 0],
     retransmission_queue |-> <<>>,
     connection_queue |-> <<>>,
     listening_socket |-> None]

TCPPacket(sock, seq, ack, flag, payload) ==
    [src_addr |-> sock.sock_id.local_addr, dst_addr |-> sock.sock_id.remote_addr,
     src |-> sock.sock_id.local_port, dest |-> sock.sock_id.remote_port,
     seq |-> seq, ack |-> ack, flag |-> flag,
     window_size |-> sock.recv_param.window, payload |-> payload]

RetransmissionQueueEntry(packet) ==
    [packet |-> packet, elapsed |-> 0, transmission_count |-> 1]

TCPEvent(sock_id, kind) == [sock_id |-> sock_id, kind |-> kind]

\* What a handler or a locked section of a user call leaves behind: the socket,
\* the segments put on the wire, the events to publish, whether it panicked, and
\* (for the history variables) what it wrote, pruned and dropped.
Res(sock) ==
    [sock |-> sock, out |-> <<>>, ev |-> <<>>, panic |-> FALSE,
     wrote |-> {}, pruned |-> 0, dropped |-> 0]

Panic(sock) == [Res(sock) EXCEPT !.panic = TRUE]

\* r, then F on the socket r left, unless r panicked
Then(r, F(_)) ==
    IF r.panic THEN r
    ELSE LET q == F(r.sock)
         IN [sock |-> q.sock, out |-> r.out \o q.out, ev |-> r.ev \o q.ev,
             panic |-> q.panic, wrote |-> r.wrote \cup q.wrote,
             pruned |-> r.pruned + q.pruned, dropped |-> r.dropped + q.dropped]

\* Socket::send_tcp_packet: the segment goes on the wire; unless it is a bare ACK
\* it is appended to the retransmission queue with one attempt.
send_tcp_packet(sock, seq, ack, flag, payload) ==
    LET p == TCPPacket(sock, seq, ack, flag, payload)
        queued == IF payload = <<>> /\ flag = {ACK}
                  THEN sock
                  ELSE [sock EXCEPT !.retransmission_queue =
                                        Append(@, RetransmissionQueueEntry(p))]
    IN [Res(queued) EXCEPT !.out = <<p>>]

publish_event(sock, kind) ==
    [Res(sock) EXCEPT !.ev = <<TCPEvent(sock.sock_id, kind)>>]

----------------------------------------------------------------------------
(* The per-state handlers of the receive worker *)

\* TCP::process_payload.  A sequence below recv.next underflows the u32
\* subtraction; an offset beyond the buffer underflows the usize subtraction:
\* a debug build panics on the subtraction, a release build on the slice that
\* follows.
process_payload(socket, packet) ==
    LET len  == Len(socket.recv_buffer)
        rp   == socket.recv_param
        plen == Len(packet.payload)
    IN IF packet.seq < rp.next THEN Panic(socket)
       ELSE
       LET offset == len - rp.window + (packet.seq - rp.next)
       IN IF offset > len THEN Panic(socket)
          ELSE
          LET copy_size == Min(plen, len - offset)
              buf == [i \in 1 .. len |->
                         IF offset < i /\ i <= offset + copy_size
                         THEN packet.payload[i - offset]
                         ELSE socket.recv_buffer[i]]
              tail == Max(rp.tail, packet.seq + copy_size)
              inorder == packet.seq = rp.next
              rp2 == IF inorder
                     THEN [rp EXCEPT !.tail = tail, !.next = tail,
                                     !.window = rp.window - (tail - packet.seq)]
                     ELSE [rp EXCEPT !.tail = tail]
              s2 == [socket EXCEPT !.recv_buffer = buf, !.recv_param = rp2]
              wr == [Res(s2) EXCEPT !.wrote = packet.seq .. (packet.seq + copy_size - 1)]
              acked == IF copy_size > 0
                       THEN Then(wr, LAMBDA s : send_tcp_packet(s, s.send_param.next,
                                                    s.recv_param.next, {ACK}, <<>>))
                       ELSE wr
          IN IF rp2.window < 0 THEN Panic(socket)
             ELSE Then(acked, LAMBDA s : publish_event(s, "DataArrived"))

\* a pruning that gives no window back for the segments it removes
RECURSIVE delete_acked_uncredited(_)
delete_acked_uncredited(socket) ==
    IF socket.retransmission_queue = <<>> THEN Res(socket)
    ELSE LET item == Head(socket.retransmission_queue)
         IN IF socket.send_param.unacked_seq > item.packet.seq
            THEN LET s2 == [socket EXCEPT !.retransmission_queue = Tail(@)]
                 IN Then([publish_event(s2, "Acked") EXCEPT !.pruned = 1],
                         LAMBDA s : delete_acked_uncredited(s))
            ELSE Res(socket)

\* TCP::delete_acked_segment_from_retransmissio_queue
RECURSIVE delete_acked_segment_from_retransmissio_queue(_)
delete_acked_segment_from_retransmissio_queue(socket) ==
    IF socket.retransmission_queue = <<>> THEN Res(socket)
    ELSE LET item == Head(socket.retransmission_queue)
         IN IF socket.send_param.unacked_seq > item.packet.seq
            THEN LET s2 == [socket EXCEPT
                               !.retransmission_queue = Tail(@),
                               !.send_param.window = @ + Len(item.packet.payload)]
                 IN Then([publish_event(s2, "Acked") EXCEPT !.pruned = 1],
                         LAMBDA s : delete_acked_segment_from_retransmissio_queue(s))
            ELSE Res(socket)

\* The acknowledgement accounting established_handler and finwait_handler share
\* (tcp.rs 475-489 and 566-579): the socket after it, and whether the handler
\* goes on to the payload and the flags.
AckAccounting(socket, packet) ==
    IF socket.send_param.unacked_seq < packet.ack /\ packet.ack <= socket.send_param.next
    THEN [r |-> delete_acked_segment_from_retransmissio_queue(
                    [socket EXCEPT !.send_param.unacked_seq = packet.ack]),
          go |-> ACK \in packet.flag]
    ELSE IF socket.send_param.next < packet.ack
    THEN [r |-> Res(socket), go |-> FALSE]
    ELSE [r |-> Res(socket), go |-> ACK \in packet.flag]

\* TCP::established_handler
established_handler(socket, packet) ==
    LET a == AckAccounting(socket, packet)
    IN IF ~a.go THEN a.r
       ELSE
       LET r1 == IF packet.payload # <<>>
                 THEN Then(a.r, LAMBDA s : process_payload(s, packet))
                 ELSE a.r
       IN IF FIN \in packet.flag
          THEN Then(Then(r1,
                 LAMBDA s : send_tcp_packet(
                                [s EXCEPT !.recv_param.next = packet.seq + 1],
                                s.send_param.next, packet.seq + 1, {ACK}, <<>>)),
                 LAMBDA s : publish_event([s EXCEPT !.status = "CloseWait"], "DataArrived"))
          ELSE r1

\* TCP::synsent_handler
synsent_handler(socket, packet) ==
    IF /\ ACK \in packet.flag
       /\ SYN \in packet.flag
       /\ socket.send_param.unacked_seq <= packet.ack
       /\ packet.ack <= socket.send_param.next
    THEN LET s1 == [socket EXCEPT !.recv_param.next = packet.seq + 1,
                                  !.recv_param.initial_seq = packet.seq,
                                  !.send_param.unacked_seq = packet.ack,
                                  !.send_param.window = packet.window_size]
         IN IF s1.send_param.unacked_seq > s1.send_param.initial_seq
            THEN Then(send_tcp_packet([s1 EXCEPT !.status = "Established"],
                                      s1.send_param.next, s1.recv_param.next, {ACK}, <<>>),
                      LAMBDA s : publish_event(s, "ConnectionCompleted"))
            ELSE send_tcp_packet([s1 EXCEPT !.status = "SynRcvd"],
                                 s1.send_param.next, s1.recv_param.next, {ACK}, <<>>)
    ELSE Res(socket)

\* TCP::finwait_handler
finwait_handler(socket, packet) ==
    LET a == AckAccounting(socket, packet)
    IN IF ~a.go THEN a.r
       ELSE
       LET r1 == IF packet.payload # <<>>
                 THEN Then(a.r, LAMBDA s : process_payload(s, packet))
                 ELSE a.r
           r2 == Then(r1, LAMBDA s :
                     IF s.status = "FinWait1" /\ s.send_param.next = s.send_param.unacked_seq
                     THEN Res([s EXCEPT !.status = "FinWait2"])
                     ELSE Res(s))
       IN IF FIN \in packet.flag
          THEN Then(Then(r2,
                 LAMBDA s : send_tcp_packet(
                                [s EXCEPT !.recv_param.next = @ + 1],
                                s.send_param.next, s.recv_param.next + 1, {ACK}, <<>>)),
                 LAMBDA s : publish_event(s, "ConnectionClosed"))
          ELSE r2

\* TCP::close_handler
close_handler(socket, packet) ==
    Res([socket EXCEPT !.send_param.unacked_seq = packet.ack])

----------------------------------------------------------------------------
(* Handlers that take the whole registry, and the timer *)

\* a handler's result on one socket, as a result on the registry
InRegistry(socks, sid, r) ==
    [socks |-> [socks EXCEPT ![sid] = r.sock], out |-> r.out, ev |-> r.ev,
     panic |-> r.panic, wrote |-> {<<sid, q>> : q \in r.wrote},
     pruned |-> r.pruned, dropped |-> r.dropped]

Unchanged(socks) ==
    [socks |-> socks, out |-> <<>>, ev |-> <<>>, panic |-> FALSE,
     wrote |-> {}, pruned |-> 0, dropped |-> 0]

\* TCP::listen_handler
listen_handler(socks, listening_socket_id, packet, remote_addr) ==
    IF ACK \in packet.flag THEN Unchanged(socks)
    ELSE IF SYN \notin packet.flag THEN Unchanged(socks)
    ELSE
    LET listening_socket == socks[listening_socket_id]
        c0 == Socket_new(listening_socket.sock_id.local_addr, remote_addr,
                         listening_socket.sock_id.local_port, packet.src, "SynRcvd")
        iss == InitialSeq(listening_socket.sock_id.local_addr)
        c1 == [c0 EXCEPT !.recv_param.next = packet.seq + 1,
                         !.recv_param.initial_seq = packet.seq,
                         !.send_param.initial_seq = iss,
                         !.send_param.window = packet.window_size]
        r  == send_tcp_packet(c1, iss, c1.recv_param.next, {SYN, ACK}, <<>>)
        connection_socket == [r.sock EXCEPT !.send_param.next = iss + 1,
                                            !.send_param.unacked_seq = iss,
                                            !.listening_socket = Some(listening_socket_id)]
    IN [Unchanged((connection_socket.sock_id :> connection_socket) @@ socks)
           EXCEPT !.out = r.out]

\* TCP::synrcvd_handler.  The unwrap on the listening socket panics when the
\* listener has left the registry.
synrcvd_handler(socks, sock_id, packet) ==
    LET socket == socks[sock_id]
    IN IF /\ ACK \in packet.flag
          /\ socket.send_param.unacked_seq <= packet.ack
          /\ packet.ack <= socket.send_param.next
       THEN LET s1 == [socket EXCEPT !.recv_param.next = packet.seq,
                                     !.send_param.unacked_seq = packet.ack,
                                     !.status = "Established"]
                socks1 == [socks EXCEPT ![sock_id] = s1]
                lid == The(socket.listening_socket)
            IN IF socket.listening_socket = None THEN Unchanged(socks1)
               ELSE IF lid \notin DOMAIN socks1
               THEN [Unchanged(socks1) EXCEPT !.panic = TRUE]
               ELSE [Unchanged([socks1 EXCEPT ![lid].connection_queue = Append(@, sock_id)])
                        EXCEPT !.ev = <<TCPEvent(lid, "ConnectionCompleted")>>]
       ELSE Unchanged(socks)

\* a scan that retransmits once more before it gives up
RECURSIVE timer_scan_once_more(_)
timer_scan_once_more(socket) ==
    IF socket.retransmission_queue = <<>> THEN Res(socket)
    ELSE
    LET item == Head(socket.retransmission_queue)
        rest == [socket EXCEPT !.retransmission_queue = Tail(@)]
        closing == FIN \in item.packet.flag
    IN IF socket.send_param.unacked_seq > item.packet.seq
       THEN LET s2 == [rest EXCEPT !.send_param.window = @ + Len(item.packet.payload)]
                evs == <<TCPEvent(s2.sock_id, "Acked")>> \o
                       (IF closing /\ s2.status = "LastAck"
                        THEN <<TCPEvent(s2.sock_id, "ConnectionClosed")>> ELSE <<>>)
            IN Then([Res(s2) EXCEPT !.ev = evs, !.pruned = 1],
                    LAMBDA s : timer_scan_once_more(s))
       ELSE IF item.elapsed < RETRANSMITTION_TIMEOUT
       THEN Res(socket)
       ELSE IF item.transmission_count <= MAX_TRANSMITTION
       THEN [Res([rest EXCEPT !.retransmission_queue =
                     Append(@, [item EXCEPT !.transmission_count = @ + 1,
                                            !.elapsed = 0])])
                EXCEPT !.out = <<item.packet>>]
       ELSE LET evs == IF closing /\ rest.status \in {"LastAck", "FinWait1", "FinWait2"}
                       THEN <<TCPEvent(rest.sock_id, "ConnectionClosed")>> ELSE <<>>
            IN Then([Res(rest) EXCEPT !.ev = evs, !.dropped = Len(item.packet.payload)],
                    LAMBDA s : timer_scan_once_more(s))

\* TCP::timer, the scan of one socket's retransmission queue (tcp.rs 672-724)
RECURSIVE timer_scan(_)
timer_scan(socket) ==
    IF socket.retransmission_queue = <<>> THEN Res(socket)
    ELSE
    LET item == Head(socket.retransmission_queue)
        rest == [socket EXCEPT !.retransmission_queue = Tail(@)]
        closing == FIN \in item.packet.flag
    IN IF socket.send_param.unacked_seq > item.packet.seq
       THEN LET s2 == [rest EXCEPT !.send_param.window = @ + Len(item.packet.payload)]
                evs == <<TCPEvent(s2.sock_id, "Acked")>> \o
                       (IF closing /\ s2.status = "LastAck"
                        THEN <<TCPEvent(s2.sock_id, "ConnectionClosed")>> ELSE <<>>)
            IN Then([Res(s2) EXCEPT !.ev = evs, !.pruned = 1],
                    LAMBDA s : timer_scan(s))
       ELSE IF item.elapsed < RETRANSMITTION_TIMEOUT
       THEN Res(socket)
       ELSE IF item.transmission_count < MAX_TRANSMITTION
       THEN [Res([rest EXCEPT !.retransmission_queue =
                     Append(@, [item EXCEPT !.transmission_count = @ + 1,
                                            !.elapsed = 0])])
                EXCEPT !.out = <<item.packet>>]
       ELSE LET evs == IF closing /\ rest.status \in {"LastAck", "FinWait1", "FinWait2"}
                       THEN <<TCPEvent(rest.sock_id, "ConnectionClosed")>> ELSE <<>>
            IN Then([Res(rest) EXCEPT !.ev = evs, !.dropped = Len(item.packet.payload)],
                    LAMBDA s : timer_scan(s))

\* TCP::timer, one pass of its loop over the registry; order is the order in
\* which the HashMap iterator yields the sockets.
RECURSIVE timer(_, _)
timer(socks, order) ==
    IF order = <<>> THEN Unchanged(socks)
    ELSE LET sid == Head(order)
             r1 == InRegistry(socks, sid, timer_scan(socks[sid]))
             r2 == timer(r1.socks, Tail(order))
         IN [socks |-> r2.socks, out |-> r1.out \o r2.out, ev |-> r1.ev \o r2.ev,
             panic |-> FALSE, wrote |-> {},
             pruned |-> r1.pruned + r2.pruned, dropped |-> r1.dropped + r2.dropped]

\* the orders in which a set can be enumerated
Orders(S) ==
    {o \in [1 .. Cardinality(S) -> S] : \A i, j \in 1 .. Cardinality(S) : i # j => o[i] # o[j]}

----------------------------------------------------------------------------
(* The receive worker's dispatch *)

\* TCP::receive_handler, one iteration of its loop on the registry of host h
\* for the segment packet: the four-tuple lookup, the fallback to the listening
\* socket, and the dispatch on the socket's status.
receive_handler(socks, packet) ==
    LET local_addr == packet.dst_addr
        remote_addr == packet.src_addr
        full == SockID(local_addr, remote_addr, packet.dest, packet.src)
        lsn == SockID(local_addr, UNDETERMINED_IP_ADDR, packet.dest, UNDETERMINED_PORT)
    IN IF full \notin DOMAIN socks /\ lsn \notin DOMAIN socks THEN Unchanged(socks)
       ELSE
       LET sock_id == IF full \in DOMAIN socks THEN full ELSE lsn
           socket == socks[sock_id]
       IN CASE socket.status = "Listen" ->
                   listen_handler(socks, sock_id, packet, remote_addr)
            [] socket.status = "SynRcvd" ->
                   synrcvd_handler(socks, sock_id, packet)
            [] socket.status = "SynSent" ->
                   InRegistry(socks, sock_id, synsent_handler(socket, packet))
            [] socket.status = "Established" ->
                   InRegistry(socks, sock_id, established_handler(socket, packet))
            [] socket.status \in {"CloseWait", "LastAck"} ->
                   InRegistry(socks, sock_id, close_handler(socket, packet))
            [] socket.status \in {"FinWait1", "FinWait2"} ->
                   InRegistry(socks, sock_id, finwait_handler(socket, packet))
            [] OTHER -> Unchanged(socks)

----------------------------------------------------------------------------
(* Shared parts of the actions *)

Range(q) == {q[i] : i \in DOMAIN q}

\* the registry lock of host h can be taken: no worker is inside a handler
\* with events still to publish, no thread panicked holding it, and no user
\* thread holds its write guard
LockFree(h) ==
    /\ pub[h] = <<>>
    /\ ~poisoned[h]
    /\ \A t \in Threads : th[t].host = h => ~th[t].guard

\* the SockID field of a thread that is in no call on a socket
NoSockID == SockID(UNDETERMINED_IP_ADDR, UNDETERMINED_IP_ADDR, UNDETERMINED_PORT,
                   UNDETERMINED_PORT)

Idle(host) ==
    [host |-> host, op |-> "none", pc |-> "idle", sock_id |-> NoSockID, buffer |-> <<>>,
     cursor |-> 0, socket |-> None, parked |-> FALSE, owed |-> FALSE, ret |-> None,
     guard |-> FALSE]

\* sockets.write(): the thread holds the write guard of its registry
write(thread) == [thread EXCEPT !.guard = TRUE]

\* a guard that is never given back
drop_forgotten(thread) == thread

\* drop(sockets), explicit or at the end of the guard's scope
drop(thread) == [thread EXCEPT !.guard = FALSE]

Ok(v) == {<<"Ok", v>>}
Err(v) == {<<"Err", v>>}

\* the call op of thread t has returned Ok
Returned(t, op) ==
    th[t].op = op /\ th[t].pc = "idle" /\ th[t].ret # None /\ The(th[t].ret)[1] = "Ok"

\* the segments in a retransmission queue of host h: of a socket of its
\* registry, or of the socket a connect call has built and not yet inserted
QueuedPackets(h, socks, thr) ==
    UNION ({{e.packet : e \in Range(socks[sid].retransmission_queue)} : sid \in DOMAIN socks}
           \cup {{e.packet : e \in Range(The(thr[t].socket).retransmission_queue)} :
                    t \in {u \in Threads : thr[u].host = h /\ thr[u].socket # None}})

TxCount(h, socks, thr, out) ==
    [p \in QueuedPackets(h, socks, thr) |->
        (IF p \in DOMAIN h_tx[h] THEN h_tx[h][p] ELSE 0)
        + Cardinality({i \in DOMAIN out : out[i] = p})]

\* what a step under the registry lock of host h leaves: rr is the result on
\* the registry, net0 the network before the step's segments join it, thr the
\* threads after the step
Effects(h, rr, net0, thr) ==
    /\ th' = thr
    /\ sockets' = [sockets EXCEPT ![h] = rr.socks]
    /\ net' = net0 \cup Range(rr.out)
    /\ pub' = [pub EXCEPT ![h] = rr.ev]
    /\ poisoned' = [poisoned EXCEPT ![h] = rr.panic]
    /\ h_wrote' = [h_wrote EXCEPT ![h] = @ \cup rr.wrote]
    /\ h_pruned' = [h_pruned EXCEPT ![h] = @ + rr.pruned]
    /\ h_dropped' = [h_dropped EXCEPT ![h] = @ + rr.dropped]
    /\ h_tx' = [h_tx EXCEPT ![h] = TxCount(h, rr.socks, thr, rr.out)]

----------------------------------------------------------------------------
(* The event mailbox *)

\* the event a call of thread t waits for
WaitKind(op) ==
    CASE op = "connect" -> "ConnectionCompleted"
      [] op = "accept"  -> "ConnectionCompleted"
      [] op = "send"    -> "Acked"
      [] op = "recv"    -> "DataArrived"
      [] op = "close"   -> "ConnectionClosed"

\* thread t is inside wait_event for the event e
Awaits(t, e) ==
    /\ th[t].pc = "wait"
    /\ e.sock_id = th[t].sock_id
    /\ e.kind = WaitKind(th[t].op)

Matches(t) ==
    /\ event[th[t].host] # None
    /\ The(event[th[t].host]).sock_id = th[t].sock_id
    /\ The(event[th[t].host]).kind = WaitKind(th[t].op)

\* TCP::publish_event: the worker holding the registry lock overwrites the
\* cell with its next event and notifies every waiter
publish_step(h) ==
    /\ pub[h] # <<>>
    /\ event' = [event EXCEPT ![h] = Some(Head(pub[h]))]
    /\ pub' = [pub EXCEPT ![h] = Tail(@)]
    /\ th' = [t \in Threads |->
                IF th[t].host = h
                THEN [th[t] EXCEPT !.parked = FALSE,
                                   !.owed = @ \/ (th[t].parked /\ Awaits(t, Head(pub[h])))]
                ELSE th[t]]
    /\ h_acked' = [h_acked EXCEPT ![h] = @ + (IF Head(pub[h]).kind = "Acked" THEN 1 ELSE 0)]
    /\ UNCHANGED <<sockets, poisoned, net, h_sent, h_recvd, h_wrote, h_tx, h_pruned, h_dropped>>

\* TCP::wait_event, the branch that finds its event in the cell: it clears
\* the cell and the call goes on (connect returns its SockID)
wait_return(t) ==
    /\ th[t].pc = "wait"
    /\ ~th[t].parked
    /\ Matches(t)
    /\ event' = [event EXCEPT ![th[t].host] = None]
    /\ th' = [th EXCEPT ![t] =
                CASE th[t].op = "connect" ->
                         [@ EXCEPT !.pc = "idle", !.owed = FALSE, !.ret = Ok(th[t].sock_id)]
                  [] th[t].op = "accept" -> [@ EXCEPT !.pc = "accept_pop", !.owed = FALSE]
                  [] th[t].op = "send"   -> [@ EXCEPT !.pc = "send_loop", !.owed = FALSE]
                  [] th[t].op = "recv"   -> [@ EXCEPT !.pc = "recv_loop", !.owed = FALSE]
                  [] th[t].op = "close"  -> [@ EXCEPT !.pc = "close_remove", !.owed = FALSE]]
    /\ UNCHANGED <<sockets, pub, poisoned, net, hist>>

\* TCP::wait_event, the branch that finds another event or none: cvar.wait
wait_park(t) ==
    /\ th[t].pc = "wait"
    /\ ~th[t].parked
    /\ ~Matches(t)
    /\ th' = [th EXCEPT ![t].parked = TRUE]
    /\ UNCHANGED <<sockets, event, pub, poisoned, net, hist>>

----------------------------------------------------------------------------
(* The workers *)

\* the receive worker of host h takes the segment p off the network (keep: the
\* network delivers it once more later) and runs its handler under the lock
receive_step(h, p, keep) ==
    /\ p \in net
    /\ p.dst_addr = h
    /\ LockFree(h)
    /\ Effects(h, receive_handler(sockets[h], p), IF keep THEN net ELSE net \ {p}, th)
    /\ UNCHANGED <<event, h_sent, h_recvd, h_acked>>

\* the timer worker of host h runs one pass over the registry
timer_step(h) ==
    /\ LockFree(h)
    /\ \E order \in Orders(DOMAIN sockets[h]) :
          Effects(h, timer(sockets[h], order), net, th)
    /\ UNCHANGED <<event, h_sent, h_recvd, h_acked>>

\* one second passes: every queued entry is a second older (the model keeps
\* the age up to the timeout, beyond which the timer does not tell ages apart)
AgeQueue(q) ==
    [i \in DOMAIN q |-> [q[i] EXCEPT !.elapsed = Min(@ + 1, RETRANSMITTION_TIMEOUT)]]

AgeSocket(sock) == [sock EXCEPT !.retransmission_queue = AgeQueue(@)]

tick ==
    /\ \/ \E h \in Hosts : \E sid \in DOMAIN sockets[h] :
             \E e \in Range(sockets[h][sid].retransmission_queue) :
                e.elapsed < RETRANSMITTION_TIMEOUT
       \/ \E t \in Threads : /\ th[t].socket # None
                             /\ \E e \in Range(The(th[t].socket).retransmission_queue) :
                                   e.elapsed < RETRANSMITTION_TIMEOUT
    /\ sockets' = [h \in Hosts |-> [sid \in DOMAIN sockets[h] |-> AgeSocket(sockets[h][sid])]]
    /\ th' = [t \in Threads |->
                IF th[t].socket = None THEN th[t]
                ELSE [th[t] EXCEPT !.socket = Some(AgeSocket(The(@)))]]
    /\ UNCHANGED <<event, pub, poisoned, net, hist>>

----------------------------------------------------------------------------
(* The user calls.  Each action is one stretch of a call between two points *)
(* where it takes and drops the registry lock.                              *)

Enter(t, op, sock_id) ==
    [th[t] EXCEPT !.op = op, !.sock_id = sock_id, !.ret = None, !.parked = FALSE,
                  !.owed = FALSE]

Remove(socks, sid) == [k \in DOMAIN socks \ {sid} |-> socks[k]]

\* TCP::select_unused_port: the ports it can return
select_unused_port(socks) ==
    {local_port \in PORT_RANGE : \A sock_id \in DOMAIN socks : local_port # sock_id.local_port}

\* TCP::connect up to the SYN (tcp.rs 79-90): the socket is built and its SYN
\* sent before the socket enters the registry
connect_syn(t, addr, port) ==
    LET h == th[t].host
    IN /\ th[t].pc = "idle"
       /\ LockFree(h)
       /\ \E local_port \in select_unused_port(sockets[h]) :
             LET iss == InitialSeq(h)
                 s0 == [Socket_new(h, addr, local_port, port, "SynSent")
                           EXCEPT !.send_param.initial_seq = iss]
                 r == send_tcp_packet(s0, iss, 0, {SYN}, <<>>)
                 socket == [r.sock EXCEPT !.send_param.unacked_seq = iss,
                                          !.send_param.next = iss + 1]
             IN Effects(h, [Unchanged(sockets[h]) EXCEPT !.out = r.out], net,
                        [th EXCEPT ![t] = [Enter(t, "connect", NoSockID) EXCEPT
                                              !.pc = "connect_insert",
                                              !.socket = Some(socket)]])
       /\ UNCHANGED <<event, h_sent, h_recvd, h_acked>>

\* TCP::connect, the insertion (tcp.rs 92-99); the call then waits for
\* ConnectionCompleted
connect_insert(t) ==
    LET h == th[t].host
        socket == The(th[t].socket)
    IN /\ th[t].pc = "connect_insert"
       /\ LockFree(h)
       /\ Effects(h, Unchanged((socket.sock_id :> socket) @@ sockets[h]), net,
                  [th EXCEPT ![t] = drop([write(@) EXCEPT !.pc = "wait", !.sock_id = socket.sock_id,
                                              !.socket = None])])
       /\ UNCHANGED <<event, h_sent, h_recvd, h_acked>>

\* TCP::listen
listen(t, local_addr, local_port) ==
    LET h == th[t].host
        socket == Socket_new(local_addr, UNDETERMINED_IP_ADDR, local_port,
                             UNDETERMINED_PORT, "Listen")
    IN /\ th[t].pc = "idle"
       /\ LockFree(h)
       /\ Effects(h, Unchanged((socket.sock_id :> socket) @@ sockets[h]), net,
                  [th EXCEPT ![t] = drop([write(Enter(t, "listen", socket.sock_id)) EXCEPT
                                        !.ret = Ok(socket.sock_id)])])
       /\ UNCHANGED <<event, h_sent, h_recvd, h_acked>>

\* TCP::accept, its entry: it waits for ConnectionCompleted on the listener
accept_call(t, sock_id) ==
    /\ th[t].pc = "idle"
    /\ th' = [th EXCEPT ![t] = [Enter(t, "accept", sock_id) EXCEPT !.pc = "wait"]]
    /\ UNCHANGED <<sockets, event, pub, poisoned, net, hist>>

\* an accept that hands back the SockID it was called with
accept_pop_listener(t) ==
    LET h == th[t].host
    IN /\ th[t].pc = "accept_pop"
       /\ LockFree(h)
       /\ Effects(h, Unchanged(sockets[h]), net,
                  [th EXCEPT ![t] = [@ EXCEPT !.pc = "idle", !.ret = Ok(th[t].sock_id)]])
       /\ UNCHANGED <<event, h_sent, h_recvd, h_acked>>

\* TCP::accept after the wait (tcp.rs 126-134)
accept_pop(t) ==
    LET h == th[t].host
        sock_id == th[t].sock_id
    IN /\ th[t].pc = "accept_pop"
       /\ LockFree(h)
       /\ IF sock_id \notin DOMAIN sockets[h]
          THEN Effects(h, Unchanged(sockets[h]), net,
                       [th EXCEPT ![t] = drop([write(@) EXCEPT !.pc = "idle",
                                                   !.ret = Err("no such socket")])])
          ELSE IF sockets[h][sock_id].connection_queue = <<>>
          THEN Effects(h, Unchanged(sockets[h]), net,
                       [th EXCEPT ![t] = drop([write(@) EXCEPT !.pc = "idle",
                                                   !.ret = Err("no connected socket")])])
          ELSE Effects(h, Unchanged([sockets[h] EXCEPT ![sock_id].connection_queue = Tail(@)]),
                       net,
                       [th EXCEPT ![t] = drop([write(@) EXCEPT
                           !.pc = "idle",
                           !.ret = Ok(Head(sockets[h][sock_id].connection_queue))])])
       /\ UNCHANGED <<event, h_sent, h_recvd, h_acked>>

\* TCP::send, its entry
send_call(t, sock_id, buffer) ==
    /\ th[t].pc = "idle"
    /\ th' = [th EXCEPT ![t] = [Enter(t, "send", sock_id) EXCEPT
                                   !.pc = "send_loop", !.buffer = buffer, !.cursor = 0]]
    /\ h_sent' = [h_sent EXCEPT ![th[t].host] = @ \o buffer]
    /\ UNCHANGED <<sockets, event, pub, poisoned, net,
                   h_recvd, h_wrote, h_tx, h_acked, h_pruned, h_dropped>>

\* a send size that leaves the peer's window out of account
send_size_unwindowed(socket, buffer, cursor) ==
    Min(MSS, Len(buffer) - cursor)

\* the size of the next segment of send (tcp.rs 149-152 and 169-172)
send_size(socket, buffer, cursor) ==
    Min(MSS, Min(socket.send_param.window, Len(buffer) - cursor))

\* TCP::send, one locked stretch (tcp.rs 143-189): with a send size of 0 the
\* call drops the lock and waits for Acked; otherwise it transmits one segment
send_loop(t) ==
    LET h == th[t].host
        sock_id == th[t].sock_id
        buffer == th[t].buffer
        cursor == th[t].cursor
    IN /\ th[t].pc = "send_loop"
       /\ LockFree(h)
       /\ IF sock_id \notin DOMAIN sockets[h]
          THEN Effects(h, Unchanged(sockets[h]), net,
                       [th EXCEPT ![t] = drop([write(@) EXCEPT !.pc = "idle",
                                                   !.ret = Err("no such socket")])])
          ELSE
          LET socket == sockets[h][sock_id]
              size == send_size(socket, buffer, cursor)
          IN IF size = 0
             THEN Effects(h, Unchanged(sockets[h]), net,
                          [th EXCEPT ![t] = drop([write(@) EXCEPT !.pc = "wait", !.parked = FALSE])])
             ELSE
             LET r == send_tcp_packet(socket, socket.send_param.next,
                                      socket.recv_param.next, {ACK},
                                      SubSeq(buffer, cursor + 1, cursor + size))
                 s2 == [r.sock EXCEPT !.send_param.next = @ + size,
                                      !.send_param.window = @ - size]
             IN Effects(h, InRegistry(sockets[h], sock_id, [r EXCEPT !.sock = s2]), net,
                        [th EXCEPT ![t] =
                            IF cursor + size < Len(buffer)
                            THEN drop([write(@) EXCEPT !.cursor = cursor + size])
                            ELSE drop([write(@) EXCEPT !.cursor = cursor + size, !.pc = "idle",
                                           !.ret = Ok(None)])])
       /\ UNCHANGED <<event, h_sent, h_recvd, h_acked>>

\* TCP::recv, its entry; size is the length of the caller's buffer
recv_call(t, sock_id, size) ==
    /\ th[t].pc = "idle"
    /\ th' = [th EXCEPT ![t] = [Enter(t, "recv", sock_id) EXCEPT
                                   !.pc = "recv_loop", !.cursor = size]]
    /\ UNCHANGED <<sockets, event, pub, poisoned, net, hist>>

\* TCP::recv, one locked stretch (tcp.rs 199-234): the unwrap panics under the
\* lock when the socket is gone; with nothing to read the call returns 0 once
\* the peer's FIN is in, and waits for DataArrived otherwise
recv_loop(t) ==
    LET h == th[t].host
        sock_id == th[t].sock_id
    IN /\ th[t].pc = "recv_loop"
       /\ LockFree(h)
       /\ IF sock_id \notin DOMAIN sockets[h]
          THEN /\ Effects(h, [Unchanged(sockets[h]) EXCEPT !.panic = TRUE], net,
                          [th EXCEPT ![t] = drop([write(@) EXCEPT !.pc = "panicked"])])
               /\ UNCHANGED h_recvd
          ELSE
          LET socket == sockets[h][sock_id]
              len == Len(socket.recv_buffer)
              received_size == len - socket.recv_param.window
          IN IF received_size = 0
                /\ socket.status \notin {"CloseWait", "LastAck", "TimeWait"}
             THEN /\ Effects(h, Unchanged(sockets[h]), net,
                             [th EXCEPT ![t] = drop([write(@) EXCEPT !.pc = "wait", !.parked = FALSE])])
                  /\ UNCHANGED h_recvd
             ELSE
             LET copy_size == Min(th[t].cursor, received_size)
                 got == SubSeq(socket.recv_buffer, 1, copy_size)
                 buf == [i \in 1 .. len |->
                            IF i + copy_size <= len THEN socket.recv_buffer[i + copy_size]
                            ELSE socket.recv_buffer[i]]
                 s2 == [socket EXCEPT !.recv_buffer = buf,
                                      !.recv_param.window = @ + copy_size]
             IN /\ Effects(h, Unchanged([sockets[h] EXCEPT ![sock_id] = s2]), net,
                           [th EXCEPT ![t] = drop([write(@) EXCEPT !.pc = "idle", !.ret = Ok(got)])])
                /\ h_recvd' = [h_recvd EXCEPT ![h] = @ \o got]
       /\ UNCHANGED <<event, h_sent, h_acked>>

\* TCP::close, its entry
close_call(t, sock_id) ==
    /\ th[t].pc = "idle"
    /\ th' = [th EXCEPT ![t] = [Enter(t, "close", sock_id) EXCEPT !.pc = "close_start"]]
    /\ UNCHANGED <<sockets, event, pub, poisoned, net, hist>>

\* TCP::close up to the wait (tcp.rs 238-269): the FIN is sent in every state
close_start(t) ==
    LET h == th[t].host
        sock_id == th[t].sock_id
    IN /\ th[t].pc = "close_start"
       /\ LockFree(h)
       /\ IF sock_id \notin DOMAIN sockets[h]
          THEN Effects(h, [Unchanged(sockets[h]) EXCEPT !.panic = TRUE], net,
                       [th EXCEPT ![t] = drop([write(@) EXCEPT !.pc = "panicked"])])
          ELSE
          LET socket == sockets[h][sock_id]
              r == send_tcp_packet(socket, socket.send_param.next,
                                   socket.recv_param.next, {FIN, ACK}, <<>>)
              s1 == [r.sock EXCEPT !.send_param.next = @ + 1]
          IN CASE socket.status = "Established" ->
                      Effects(h, InRegistry(sockets[h], sock_id,
                                            [r EXCEPT !.sock = [s1 EXCEPT !.status = "FinWait1"]]),
                              net, [th EXCEPT ![t] = drop([write(@) EXCEPT !.pc = "wait", !.parked = FALSE])])
               [] socket.status = "CloseWait" ->
                      Effects(h, InRegistry(sockets[h], sock_id,
                                            [r EXCEPT !.sock = [s1 EXCEPT !.status = "LastAck"]]),
                              net, [th EXCEPT ![t] = drop([write(@) EXCEPT !.pc = "wait", !.parked = FALSE])])
               [] socket.status = "Listen" ->
                      Effects(h, [Unchanged(Remove(sockets[h], sock_id)) EXCEPT !.out = r.out],
                              net, [th EXCEPT ![t] = drop([write(@) EXCEPT !.pc = "idle", !.ret = Ok(None)])])
               [] OTHER ->
                      Effects(h, InRegistry(sockets[h], sock_id, [r EXCEPT !.sock = s1]),
                              net, [th EXCEPT ![t] = drop([write(@) EXCEPT !.pc = "idle", !.ret = Ok(None)])])
       /\ UNCHANGED <<event, h_sent, h_recvd, h_acked>>

\* TCP::close after the wait (tcp.rs 261-263): the socket leaves the registry
close_remove(t) ==
    LET h == th[t].host
    IN /\ th[t].pc = "close_remove"
       /\ LockFree(h)
       /\ Effects(h, Unchanged(Remove(sockets[h], th[t].sock_id)), net,
                  [th EXCEPT ![t] = drop([write(@) EXCEPT !.pc = "idle", !.ret = Ok(None)])])
       /\ UNCHANGED <<event, h_sent, h_recvd, h_acked>>

\* a call that takes the registry lock after another thread panicked holding
\* it: write().unwrap() panics on the poisoned lock
lock_poisoned(t) ==
    /\ th[t].pc \in {"connect_insert", "accept_pop", "send_loop", "recv_loop",
                     "close_start", "close_remove"}
    /\ poisoned[th[t].host]
    /\ th' = [th EXCEPT ![t].pc = "panicked"]
    /\ UNCHANGED <<sockets, event, pub, poisoned, net, hist>>

----------------------------------------------------------------------------
(* The handshake: the server listens and accepts, the client connects *)

ListenPorts == {80}
ListenPort == CHOOSE port \in ListenPorts : TRUE
ListenerId == SockID("s", UNDETERMINED_IP_ADDR, ListenPort, UNDETERMINED_PORT)

NoHistory ==
    /\ h_sent = [h \in Hosts |-> <<>>]
    /\ h_recvd = [h \in Hosts |-> <<>>]
    /\ h_wrote = [h \in Hosts |-> {}]
    /\ h_tx = [h \in Hosts |-> <<>>]
    /\ h_acked = [h \in Hosts |-> 0]
    /\ h_pruned = [h \in Hosts |-> 0]
    /\ h_dropped = [h \in Hosts |-> 0]

\* the state TCP::new leaves on both hosts: empty registries, an empty cell
InitHandshake ==
    /\ sockets = [h \in Hosts |-> <<>>]
    /\ event = [h \in Hosts |-> None]
    /\ pub = [h \in Hosts |-> <<>>]
    /\ poisoned = [h \in Hosts |-> FALSE]
    /\ net = {}
    /\ th = [t \in Threads |-> Idle(IF t = "u1" THEN "c" ELSE "s")]
    /\ NoHistory

\* the steps of the event mailbox
Mailbox ==
    \/ \E h \in Hosts : publish_step(h)
    \/ \E t \in Threads : wait_return(t)
    \/ \E t \in Threads : wait_park(t)

\* the timer workers, and time
Timers ==
    \/ \E h \in Hosts : timer_step(h)
    \/ tick

NextHandshake ==
    \/ th["u2"].op = "none" /\ listen("u2", "s", ListenPort)
    \/ th["u2"].op = "listen" /\ accept_call("u2", ListenerId)
    \/ accept_pop("u2")
    \/ th["u2"].op # "none" /\ th["u1"].op = "none" /\ connect_syn("u1", "s", ListenPort)
    \/ connect_insert("u1")
    \/ \E h \in Hosts : \E p \in net : receive_step(h, p, FALSE)
    \/ Mailbox
    \/ Timers

SpecHandshake == InitHandshake /\ [][NextHandshake]_vars

----------------------------------------------------------------------------
(* Data transfer on an established connection: the client sends Data, the   *)
(* server receives.  The initial state is the one the handshake above ends  *)
(* in, built with the same handlers, after the first pass of both timers.   *)

ClientPort == PortLo
ClientId == SockID("c", "s", ClientPort, ListenPort)
ChildId == SockID("s", "c", ListenPort, ClientPort)

\* the client socket as connect inserts it, and its SYN
ClientSynSent ==
    LET iss == InitialSeq("c")
        s0 == [Socket_new("c", "s", ClientPort, ListenPort, "SynSent")
                  EXCEPT !.send_param.initial_seq = iss]
        r == send_tcp_packet(s0, iss, 0, {SYN}, <<>>)
    IN [r EXCEPT !.sock = [r.sock EXCEPT !.send_param.unacked_seq = iss,
                                         !.send_param.next = iss + 1]]

\* the server's registry after listen and the LISTEN handler on the SYN
ServerSynRcvd ==
    LET lsn == Socket_new("s", UNDETERMINED_IP_ADDR, ListenPort, UNDETERMINED_PORT, "Listen")
    IN listen_handler(ListenerId :> lsn, ListenerId, ClientSynSent.out[1], "c")

\* the client socket after the SYN-SENT handler on the SYN|ACK
ClientEstablished == synsent_handler(ClientSynSent.sock, ServerSynRcvd.out[1])

\* the server's registry after the SYN-RECEIVED handler on the ACK and accept
ServerEstablished ==
    LET r == synrcvd_handler(ServerSynRcvd.socks, ChildId, ClientEstablished.out[1])
    IN [r.socks EXCEPT ![ListenerId].connection_queue = Tail(@)]

\* both ends ESTABLISHED, the SYN and the SYN|ACK pruned by the timers (whose
\* Acked events are the last ones published), every call returned
InitEstablished ==
    /\ sockets = [h \in Hosts |->
                    IF h = "c"
                    THEN timer(ClientId :> ClientEstablished.sock, <<ClientId>>).socks
                    ELSE timer(ServerEstablished, <<ChildId>>).socks]
    /\ event = [h \in Hosts |->
                  Some(TCPEvent(IF h = "c" THEN ClientId ELSE ChildId, "Acked"))]
    /\ pub = [h \in Hosts |-> <<>>]
    /\ poisoned = [h \in Hosts |-> FALSE]
    /\ net = {}
    /\ th = [t \in Threads |-> Idle(IF t = "u1" THEN "c" ELSE "s")]
    /\ NoHistory

\* the largest buffer a recv call passes
MaxRecv == 2

NextData ==
    \/ h_sent["c"] = <<>> /\ send_call("u1", ClientId, Data)
    \/ send_loop("u1")
    \/ /\ Len(h_recvd["s"]) < MaxData
       /\ \E size \in 1 .. MaxRecv : recv_call("u2", ChildId, size)
    \/ recv_loop("u2")
    \/ \E h \in Hosts : \E p \in net : \E keep \in BOOLEAN : receive_step(h, p, keep)
    \/ \E t \in Threads : lock_poisoned(t)
    \/ Mailbox

SpecData == InitEstablished /\ [][NextData]_vars

----------------------------------------------------------------------------
(* Teardown of an established connection: both ends close, in any order,    *)
(* while a third thread of the server reads the connection.  Segments are   *)
(* delivered within the retransmission timeout.                             *)

NextClose ==
    \/ th["u1"].op = "none" /\ close_call("u1", ClientId)
    \/ th["u2"].op = "none" /\ close_call("u2", ChildId)
    \/ \E t \in {"u1", "u2"} : close_start(t)
    \/ \E t \in {"u1", "u2"} : close_remove(t)
    \/ th["u3"].op = "none" /\ recv_call("u3", ChildId, MaxRecv)
    \/ recv_loop("u3")
    \/ \E h \in Hosts : \E p \in net : receive_step(h, p, FALSE)
    \/ \E h \in Hosts : timer_step(h)
    \/ Mailbox

SpecClose == InitEstablished /\ [][NextClose]_vars

----------------------------------------------------------------------------
(* A window stall: the client sends one byte more than the peer's window,   *)
(* while the server sends a byte of its own, so that acknowledgements also  *)
(* arrive in segments that carry payload.                                   *)

StallData == [i \in 1 .. BufSize + 1 |-> i]
Reply == <<9>>

NextStall ==
    \/ h_sent["c"] = <<>> /\ send_call("u1", ClientId, StallData)
    \/ h_sent["s"] = <<>> /\ send_call("u3", ChildId, Reply)
    \/ \E t \in {"u1", "u3"} : send_loop(t)
    \/ \E h \in Hosts : \E p \in net : receive_step(h, p, FALSE)
    \/ \E t \in Threads : lock_poisoned(t)
    \/ Mailbox

SpecStall == InitEstablished /\ [][NextStall]_vars

----------------------------------------------------------------------------
(* Retransmission: the client sends, then closes, over a network that may   *)
(* hold a segment back for ever; the timers retransmit and give up.         *)

\* the bytes the client sends before it closes
MaxRetx == 1
RetxData == [i \in 1 .. MaxRetx |-> i]

NextRetransmit ==
    \/ h_sent["c"] = <<>> /\ send_call("u1", ClientId, RetxData)
    \/ send_loop("u1")
    \/ Returned("u1", "send") /\ close_call("u1", ClientId)
    \/ close_start("u1")
    \/ close_remove("u1")
    \/ \E h \in Hosts : \E p \in net : receive_step(h, p, FALSE)
    \/ Mailbox
    \/ Timers

SpecRetransmit == InitEstablished /\ [][NextRetransmit]_vars

----------------------------------------------------------------------------
(* A silent peer: no segment is ever answered.  The client opens a second   *)
(* connection; when its SYN was given up the server sends more than a       *)
(* window on the established one; when that was given up the server closes. *)
(* Only the timers can end the waits.                                       *)

\* thread t waits and every retransmission of every host is spent
GivenUp(t) ==
    /\ th[t].pc = "wait"
    /\ \A h \in Hosts : \A sid \in DOMAIN sockets[h] :
          sockets[h][sid].retransmission_queue = <<>>

NextSilent ==
    \/ th["u1"].op = "none" /\ connect_syn("u1", "s", ListenPort)
    \/ connect_insert("u1")
    \/ GivenUp("u1") /\ h_sent["s"] = <<>> /\ send_call("u3", ChildId, StallData)
    \/ send_loop("u3")
    \/ GivenUp("u3") /\ th["u2"].op = "none" /\ close_call("u2", ChildId)
    \/ close_start("u2")
    \/ close_remove("u2")
    \/ Mailbox
    \/ Timers

SpecSilent == InitEstablished /\ [][NextSilent]_vars

----------------------------------------------------------------------------
(* Several handshakes on one listener: the client connects once per         *)
(* ephemeral port, one call after the other; two threads of the server call *)
(* accept when every handshake has completed and the timers have pruned the *)
(* acknowledged SYNs.  Segments are delivered within the timeout.           *)

\* every handshake has completed and still waits in the acceptance queue
AllCompleted ==
    /\ ListenerId \in DOMAIN sockets["s"]
    /\ Len(sockets["s"][ListenerId].connection_queue) = NPorts
    /\ \A h \in Hosts : \A sid \in DOMAIN sockets[h] :
          sockets[h][sid].retransmission_queue = <<>>

NextAccept ==
    \/ th["u2"].op = "none" /\ listen("u2", "s", ListenPort)
    \/ \E t \in {"u2", "u3"} :
          /\ th[t].op \in {"none", "listen"}
          /\ AllCompleted
          /\ accept_call(t, ListenerId)
    \/ \E t \in {"u2", "u3"} : accept_pop(t)
    \/ /\ ListenerId \in DOMAIN sockets["s"]
       /\ th["u1"].op = "none" \/ Returned("u1", "connect")
       /\ connect_syn("u1", "s", ListenPort)
    \/ connect_insert("u1")
    \/ \E h \in Hosts : \E p \in net : receive_step(h, p, FALSE)
    \/ \E h \in Hosts : timer_step(h)
    \/ Mailbox

SpecAccept == InitHandshake /\ [][NextAccept]_vars

----------------------------------------------------------------------------
(* Calls on a SockID that is not registered.  The handshake has just         *)
(* completed: connect has returned, the child waits in the acceptance queue *)
(* and the cell of the server holds the listener's ConnectionCompleted.     *)
(* Every thread calls accept, send, recv or close with the listener's       *)
(* SockID: the client never has it, the server loses it to the first close. *)

InitCompleted ==
    /\ sockets = [h \in Hosts |->
                    IF h = "c"
                    THEN ClientId :> ClientEstablished.sock
                    ELSE synrcvd_handler(ServerSynRcvd.socks, ChildId,
                                         ClientEstablished.out[1]).socks]
    /\ event = [h \in Hosts |->
                  IF h = "c" THEN None
                  ELSE Some(TCPEvent(ListenerId, "ConnectionCompleted"))]
    /\ pub = [h \in Hosts |-> <<>>]
    /\ poisoned = [h \in Hosts |-> FALSE]
    /\ net = {}
    /\ th = [t \in Threads |-> Idle(IF t = "u1" THEN "c" ELSE "s")]
    /\ NoHistory

\* thread t is in no call, and has made none or has returned from close
MayCall(t) == th[t].pc = "idle" /\ th[t].op \in {"none", "close"}

NextLookup ==
    \/ \E t \in Threads : MayCall(t) /\ accept_call(t, ListenerId)
    \/ \E t \in Threads : MayCall(t) /\ send_call(t, ListenerId, Reply)
    \/ \E t \in Threads : MayCall(t) /\ recv_call(t, ListenerId, MaxRecv)
    \/ \E t \in Threads : MayCall(t) /\ close_call(t, ListenerId)
    \/ \E t \in Threads : accept_pop(t)
    \/ \E t \in Threads : send_loop(t)
    \/ \E t \in Threads : recv_loop(t)
    \/ \E t \in Threads : close_start(t)
    \/ \E t \in Threads : lock_poisoned(t)
    \/ \E h \in Hosts : timer_step(h)
    \/ Mailbox

SpecLookup == InitCompleted /\ [][NextLookup]_vars

----------------------------------------------------------------------------
(* Arbitrary inbound segments: the peer of the server's established         *)
(* connection has sent two segments with any flags, any sequence and        *)
(* acknowledgement number around the expected ones, with and without        *)
(* payload; the receive worker processes them while a thread reads.         *)

\* how far below and above the expected numbers a segment may be
MaxSkew == 1
\* the longest payload of an inbound segment
MaxPayload == 3

Inbound ==
    [src_addr : {"c"}, dst_addr : {"s"}, src : {ClientPort}, dest : {ListenPort},
     seq : (InitialSeq("c") + 1 - MaxSkew) .. (InitialSeq("c") + 1 + MaxPayload + MaxSkew),
     ack : (InitialSeq("s") + 1 - MaxSkew) .. (InitialSeq("s") + 1 + MaxSkew),
     flag : (SUBSET {ACK, FIN}) \cup {{SYN}},
     window_size : {BufSize},
     payload : {[i \in 1 .. n |-> 7] : n \in {0, MaxPayload}}]

\* both ends ESTABLISHED as in InitEstablished, two inbound segments in flight
InitInbound ==
    /\ sockets = [h \in Hosts |->
                    IF h = "c"
                    THEN timer(ClientId :> ClientEstablished.sock, <<ClientId>>).socks
                    ELSE timer(ServerEstablished, <<ChildId>>).socks]
    /\ event = [h \in Hosts |->
                  Some(TCPEvent(IF h = "c" THEN ClientId ELSE ChildId, "Acked"))]
    /\ pub = [h \in Hosts |-> <<>>]
    /\ poisoned = [h \in Hosts |-> FALSE]
    /\ \E p, q \in Inbound : net = {p, q}
    /\ th = [t \in Threads |-> Idle(IF t = "u1" THEN "c" ELSE "s")]
    /\ NoHistory

NextInbound ==
    \/ \E h \in Hosts : \E p \in net : receive_step(h, p, FALSE)
    \/ th["u3"].op = "none" /\ recv_call("u3", ChildId, MaxRecv)
    \/ recv_loop("u3")
    \/ Mailbox

SpecInbound == InitInbound /\ [][NextInbound]_vars

----------------------------------------------------------------------------
(* A whole session, every blocking call in it: the server listens and       *)
(* accepts; the client connects, sends one byte more than a window and      *)
(* closes, and then the server closes the accepted connection; a second     *)
(* thread of the server reads the accepted connection.                      *)
(* Segments are delivered within the retransmission timeout.                *)

\* the SockID the last call of thread t returned
Got(t) == The(th[t].ret)[2]

\* the SockIDs accept has handed to the server's threads so far
Accepted ==
    IF Returned("u2", "accept") THEN {Got("u2")}
    ELSE IF th["u2"].op = "close" THEN {th["u2"].sock_id}
    ELSE {}

NextSession ==
    \/ th["u2"].op = "none" /\ listen("u2", "s", ListenPort)
    \/ th["u2"].op = "listen" /\ accept_call("u2", ListenerId)
    \/ accept_pop("u2")
    \/ th["u2"].op # "none" /\ th["u1"].op = "none" /\ connect_syn("u1", "s", ListenPort)
    \/ connect_insert("u1")
    \/ Returned("u1", "connect") /\ send_call("u1", Got("u1"), StallData)
    \/ send_loop("u1")
    \/ /\ Returned("u1", "send")
       /\ Returned("u3", "recv")
       /\ close_call("u1", th["u1"].sock_id)
    \/ /\ Returned("u2", "accept")
       /\ th["u1"].op = "close" /\ th["u1"].pc = "wait"
       /\ Returned("u3", "recv")
       /\ close_call("u2", Got("u2"))
    \/ \E t \in {"u1", "u2"} : close_start(t)
    \/ \E t \in {"u1", "u2"} : close_remove(t)
    \/ /\ th["u3"].op = "none"
       /\ th["u1"].op = "send"
       /\ \E sock_id \in Accepted : recv_call("u3", sock_id, MaxRecv)
    \/ recv_loop("u3")
    \/ \E h \in Hosts : \E p \in net : receive_step(h, p, FALSE)
    \/ Mailbox

SpecSession == InitHandshake /\ [][NextSession]_vars

----------------------------------------------------------------------------
(* One arbitrary inbound segment while the server has a byte or a FIN       *)
(* outstanding: the server sends Reply and then closes; the peer's segment  *)
(* of InitOutstanding reaches the connection at any point of that.          *)

\* both ends ESTABLISHED as in InitEstablished, one inbound segment in flight
InitOutstanding ==
    /\ sockets = [h \in Hosts |->
                    IF h = "c"
                    THEN timer(ClientId :> ClientEstablished.sock, <<ClientId>>).socks
                    ELSE timer(ServerEstablished, <<ChildId>>).socks]
    /\ event = [h \in Hosts |->
                  Some(TCPEvent(IF h = "c" THEN ClientId ELSE ChildId, "Acked"))]
    /\ pub = [h \in Hosts |-> <<>>]
    /\ poisoned = [h \in Hosts |-> FALSE]
    /\ \E p \in Inbound : net = {p}
    /\ th = [t \in Threads |-> Idle(IF t = "u1" THEN "c" ELSE "s")]
    /\ NoHistory

NextOutstanding ==
    \/ h_sent["s"] = <<>> /\ send_call("u2", ChildId, Reply)
    \/ send_loop("u2")
    \/ Returned("u2", "send") /\ close_call("u2", ChildId)
    \/ close_start("u2")
    \/ close_remove("u2")
    \/ \E h \in Hosts : \E p \in net : receive_step(h, p, FALSE)
    \/ Mailbox

SpecOutstanding == InitOutstanding /\ [][NextOutstanding]_vars

----------------------------------------------------------------------------
(* The handshake of SpecHandshake, delivered within the retransmission      *)
(* timeout, with one arbitrary segment of the peer in flight: to the client *)
(* as from the server's port, or to the server as from the client's port,   *)
(* with any of the flags SYN and ACK and an acknowledgement number around   *)
(* the initial sequence number of the receiving end.                        *)

Opening ==
    [src_addr : {"s"}, dst_addr : {"c"}, src : {ListenPort}, dest : {ClientPort},
     seq : {InitialSeq("s")},
     ack : (InitialSeq("c") - MaxSkew) .. (InitialSeq("c") + 1 + MaxSkew),
     flag : SUBSET {SYN, ACK},
     window_size : {BufSize},
     payload : {<<>>}]
    \cup
    [src_addr : {"c"}, dst_addr : {"s"}, src : {ClientPort}, dest : {ListenPort},
     seq : {InitialSeq("c") + 1},
     ack : (InitialSeq("s") - MaxSkew) .. (InitialSeq("s") + 1 + MaxSkew),
     flag : SUBSET {SYN, ACK},
     window_size : {BufSize},
     payload : {<<>>}]

\* the state TCP::new leaves on both hosts, one segment of Opening in flight
InitOpening ==
    /\ sockets = [h \in Hosts |-> <<>>]
    /\ event = [h \in Hosts |-> None]
    /\ pub = [h \in Hosts |-> <<>>]
    /\ poisoned = [h \in Hosts |-> FALSE]
    /\ \E p \in Opening : net = {p}
    /\ th = [t \in Threads |-> Idle(IF t = "u1" THEN "c" ELSE "s")]
    /\ NoHistory

NextOpening ==
    \/ th["u2"].op = "none" /\ listen("u2", "s", ListenPort)
    \/ th["u2"].op = "listen" /\ accept_call("u2", ListenerId)
    \/ accept_pop("u2")
    \/ th["u2"].op # "none" /\ th["u1"].op = "none" /\ connect_syn("u1", "s", ListenPort)
    \/ connect_insert("u1")
    \/ \E h \in Hosts : \E p \in net : receive_step(h, p, FALSE)
    \/ Mailbox

SpecOpening == InitOpening /\ [][NextOpening]_vars

----------------------------------------------------------------------------
(* Two connect calls at once on one TCP object: the host c listens and      *)
(* accepts, two threads of the host s connect to it.                        *)

NextConnect ==
    \/ th["u1"].op = "none" /\ listen("u1", "c", ListenPort)
    \/ Returned("u1", "listen") /\ accept_call("u1", Got("u1"))
    \/ accept_pop("u1")
    \/ \E t \in {"u2", "u3"} :
          th["u1"].op # "none" /\ th[t].op = "none" /\ connect_syn(t, "c", ListenPort)
    \/ \E t \in {"u2", "u3"} : connect_insert(t)
    \/ \E h \in Hosts : \E p \in net : receive_step(h, p, FALSE)
    \/ Mailbox

SpecConnect == InitHandshake /\ [][NextConnect]_vars

Spec == SpecData

----------------------------------------------------------------------------
(* Properties *)

IsPrefix(a, b) == Len(a) <= Len(b) /\ a = SubSeq(b, 1, Len(a))

\* C1: the bytes returned by the receiver's successive recv calls are a prefix
\* of the bytes passed to the sender's send calls: same order, same content,
\* no gap, no duplicate.
C1_RecvIsPrefixOfSent == IsPrefix(h_recvd["s"], h_sent["c"])

\* C9: recv.next advances only over sequence numbers whose bytes have been
\* received and written to the receive buffer; a segment above recv.next
\* leaves recv.next alone; recv.next never advances over a hole.
C9_NextAdvancesOverReceivedOnly ==
    [][\A sid \in DOMAIN sockets["s"] \cap DOMAIN sockets'["s"] :
          LET old == sockets["s"][sid].recv_param.next
              new == sockets'["s"][sid].recv_param.next
          IN new > old =>
                \A q \in old .. (new - 1) : <<sid, q>> \in h_wrote'["s"]]_vars

\* the handshake has run to its end: no thread, worker or segment can step
HandshakeAtRest == ~ENABLED <<NextHandshake>>_vars

\* C2: when the client connects to the listening server and the transport
\* delivers SYN, SYN|ACK and ACK, the blocked connect call and the accept call
\* on the listener return: once the handshake has run to its end, both calls
\* have returned.
C2_ConnectAndAcceptReturn ==
    HandshakeAtRest => (Returned("u1", "connect") /\ Returned("u2", "accept"))

\* C3: a wait that was parked when its event was published returns; the
\* event is not lost to the other publishes: no run ends with a thread still
\* waiting for an event that was published while it was parked.
C3_ParkedWaitIsWoken ==
    HandshakeAtRest => \A t \in Threads : ~(th[t].pc = "wait" /\ th[t].owed)

\* no segment awaits an acknowledgement or a retransmission
NothingQueued ==
    \A h \in Hosts : \A sid \in DOMAIN sockets[h] :
        sockets[h][sid].retransmission_queue = <<>>

\* the teardown has run to its end: nothing is left to retransmit and no
\* thread, worker or segment can step
CloseAtRest == NothingQueued /\ ~ENABLED <<NextClose>>_vars

\* C4: once close was called on both ends of an established connection and
\* every segment was delivered, both close calls have returned and neither
\* registry holds the connection's SockID.
C4_BothClosesReturn ==
    CloseAtRest =>
        /\ Returned("u1", "close") /\ ClientId \notin DOMAIN sockets["c"]
        /\ Returned("u2", "close") /\ ChildId \notin DOMAIN sockets["s"]

\* C5: a recv that was blocked when the peer's FIN arrived in ESTABLISHED (the
\* handler answered ACK, moved to CLOSE-WAIT and published DataArrived) returns
\* 0: no run ends with that recv still waiting.
C5_BlockedRecvSeesFin ==
    CloseAtRest => ~(th["u3"].op = "recv" /\ th["u3"].pc = "wait" /\ th["u3"].owed)

\* C6: every data segment send transmits carries at least 1 and at most
\* min(MSS, send.window as read under the lock, bytes remaining) bytes; with
\* send.window at 0 send transmits nothing, and send.window rises only when an
\* acknowledged segment leaves the retransmission queue.
C6_SendSizeWithinWindow ==
    [][\A t \in Threads :
          LET h == th[t].host
              sid == th[t].sock_id
          IN /\ (th[t].pc = "send_loop" /\ th'[t] # th[t] /\ sid \in DOMAIN sockets[h]) =>
                   LET window == sockets[h][sid].send_param.window
                       remaining == Len(th[t].buffer) - th[t].cursor
                       out == net' \ net
                       sent == th'[t].cursor - th[t].cursor
                   IN /\ \A p \in out : /\ Len(p.payload) >= 1
                                        /\ Len(p.payload) <= MSS
                                        /\ Len(p.payload) <= window
                                        /\ Len(p.payload) <= remaining
                                        /\ Len(p.payload) = sent
                      /\ sent > 0 => out # {}
                      /\ window = 0 => out = {} /\ sent = 0
             /\ (sid \in DOMAIN sockets[h] /\ sid \in DOMAIN sockets'[h]
                 /\ sockets'[h][sid].send_param.window > sockets[h][sid].send_param.window)
                   => h_pruned'[h] > h_pruned[h]]_vars

\* the send stalled on a closed window and went on to transmit its last byte
C6_Witness ==
    /\ th["u1"].op = "send"
    /\ th["u1"].cursor = Len(StallData)
    /\ h_pruned["c"] > 0

\* the stall scenario has run to its end
StallAtRest == NothingQueued /\ ~ENABLED <<NextStall>>_vars

\* C7: a send that parked on a closed window transmits its remaining bytes
\* and returns once the peer has acknowledged what it received, also when the
\* acknowledgement arrives in a segment that carries payload: no run ends with
\* everything acknowledged and the send still waiting.
C7_StalledSendResumes ==
    StallAtRest => Returned("u1", "send")

\* the Acked events of host h that are published or about to be
AckedEvents(h) ==
    h_acked[h] + Cardinality({i \in DOMAIN pub[h] : pub[h][i].kind = "Acked"})

\* C8 as stated: at every moment send.window plus the payload bytes still in
\* the retransmission queue equals the window before the send call, and one
\* Acked event is published for each segment removed as acknowledged.
C8_WindowPlusQueuedIsInitial ==
    /\ \A sid \in DOMAIN sockets["c"] :
          sockets["c"][sid].send_param.window
             + SumLen(sockets["c"][sid].retransmission_queue) = BufSize
    /\ AckedEvents("c") = h_pruned["c"]

\* C8, amended: send.window plus the payload bytes still in the retransmission
\* queue plus the payload bytes of the segments the timer gave up on equals
\* the window before the send call (so the window is back at that value once
\* every segment was acknowledged and none was given up), and one Acked event
\* is published for each segment removed as acknowledged.
C8_WindowPlusQueuedPlusDroppedIsInitial ==
    /\ \A sid \in DOMAIN sockets["c"] :
          sockets["c"][sid].send_param.window
             + SumLen(sockets["c"][sid].retransmission_queue)
             + h_dropped["c"] = BufSize
    /\ AckedEvents("c") = h_pruned["c"]

\* the data segment was acknowledged and removed, its Acked published, and
\* the window is back at its initial value
C8_Witness ==
    /\ h_sent["c"] # <<>>
    /\ ClientId \in DOMAIN sockets["c"]
    /\ sockets["c"][ClientId].retransmission_queue = <<>>
    /\ sockets["c"][ClientId].send_param.window = BufSize
    /\ h_pruned["c"] >= 1
    /\ h_acked["c"] = h_pruned["c"]

\* the entry of q that carries the segment p, if any
EntriesOf(q, p) == {i \in DOMAIN q : q[i].packet = p}

\* C10: a queued segment is put on the wire at most MAX_TRANSMITTION (5) times;
\* a retransmission happens only when the timeout elapsed since the latest
\* transmission and the sequence is not below send.unacked_seq; an entry
\* leaves the queue unacknowledged only at the timeout after its 5th
\* transmission, and then ConnectionClosed is published if it carries FIN and
\* the socket is in LAST-ACK, FIN-WAIT-1 or FIN-WAIT-2.
C10_BoundedRetransmission ==
    [][\A h \in Hosts :
          /\ \A p \in DOMAIN h_tx'[h] : h_tx'[h][p] <= MAX_TRANSMITTION
          /\ \A sid \in DOMAIN sockets[h] \cap DOMAIN sockets'[h] :
                LET old == sockets[h][sid]
                    new == sockets'[h][sid]
                    q == old.retransmission_queue
                    q2 == new.retransmission_queue
                IN \A i \in DOMAIN q :
                      LET e == q[i]
                          kept == EntriesOf(q2, e.packet)
                      IN /\ \A j \in kept :
                               q2[j].transmission_count # e.transmission_count =>
                                  /\ q2[j].transmission_count = e.transmission_count + 1
                                  /\ e.elapsed >= RETRANSMITTION_TIMEOUT
                                  /\ e.packet.seq >= old.send_param.unacked_seq
                                  /\ e.packet \in net'
                                  /\ h_tx'[h][e.packet] = h_tx[h][e.packet] + 1
                         /\ (kept = {} /\ e.packet.seq >= new.send_param.unacked_seq) =>
                               /\ e.transmission_count = MAX_TRANSMITTION
                               /\ e.elapsed >= RETRANSMITTION_TIMEOUT
                               /\ (FIN \in e.packet.flag
                                   /\ old.status \in {"LastAck", "FinWait1", "FinWait2"})
                                     => TCPEvent(sid, "ConnectionClosed") \in Range(pub'[h])]_vars

\* the timer gave up on the unacknowledged FIN after its 5th transmission and
\* published ConnectionClosed in FIN-WAIT-1
C10_Witness ==
    /\ ClientId \in DOMAIN sockets["c"]
    /\ sockets["c"][ClientId].status = "FinWait1"
    /\ sockets["c"][ClientId].send_param.unacked_seq < sockets["c"][ClientId].send_param.next
    /\ \A i \in DOMAIN sockets["c"][ClientId].retransmission_queue :
          FIN \notin sockets["c"][ClientId].retransmission_queue[i].packet.flag
    /\ TCPEvent(ClientId, "ConnectionClosed") \in Range(pub["c"])

\* the call of thread t waits on a socket with nothing left to retransmit,
\* and neither the cell nor the worker holds the event it waits for
Exhausted(t) ==
    /\ th[t].pc = "wait"
    /\ th[t].sock_id \in DOMAIN sockets[th[t].host]
    /\ sockets[th[t].host][th[t].sock_id].retransmission_queue = <<>>
    /\ ~Matches(t)
    /\ \A i \in DOMAIN pub[th[t].host] : ~Awaits(t, pub[th[t].host][i])

\* C11: if the peer never answers, every blocked user call (connect waiting
\* for the handshake, send waiting on a closed window, close waiting for
\* ConnectionClosed) unblocks once the retransmissions of the outstanding
\* segment are exhausted: no call still waits, without its event, on a
\* socket whose retransmissions are spent.
C11_BlockedCallsUnblock ==
    \A t \in Threads : ~Exhausted(t)

\* the accept call of thread t waits, and neither the cell nor the worker
\* holds a ConnectionCompleted for its listener.  In SpecAccept the accept
\* calls start when every handshake has completed, so no further
\* ConnectionCompleted is ever published: the call waits for ever.
Starved(t) ==
    /\ th[t].op = "accept"
    /\ th[t].pc = "wait"
    /\ ~Matches(t)
    /\ \A i \in DOMAIN pub[th[t].host] : ~Awaits(t, pub[th[t].host][i])

\* C12: if k handshakes have completed on the listener then k accept calls
\* return, also when several handshakes complete before the first accept
\* runs: when one accept call has returned, the other does not wait for ever
\* while a completed child sits in the listener's acceptance queue.
C12_EveryCompletedChildIsAccepted ==
    \A t, u \in {"u2", "u3"} :
        (Returned(u, "accept") /\ Starved(t)) =>
            sockets["s"][ListenerId].connection_queue = <<>>

\* C13: after listen and accept on the server and connect on the client
\* complete one handshake, the SockID accept returns mirrors the SockID
\* connect returns: its local address and port are the client's remote
\* address and port, its remote address and port the client's local ones.
C13_AcceptedMirrorsConnected ==
    (Returned("u1", "connect") /\ Returned("u2", "accept")) =>
        LET connected == The(th["u1"].ret)[2]
            accepted == The(th["u2"].ret)[2]
        IN /\ accepted.local_addr = connected.remote_addr
           /\ accepted.local_port = connected.remote_port
           /\ accepted.remote_addr = connected.local_addr
           /\ accepted.remote_port = connected.local_port

\* connect and accept have both returned, each with the SockID of a socket
\* that is ESTABLISHED in its registry
C13_Witness ==
    /\ Returned("u1", "connect")
    /\ Returned("u2", "accept")
    /\ The(th["u1"].ret)[2] \in DOMAIN sockets["c"]
    /\ The(th["u2"].ret)[2] \in DOMAIN sockets["s"]
    /\ sockets["c"][The(th["u1"].ret)[2]].status = "Established"
    /\ sockets["s"][The(th["u2"].ret)[2]].status = "Established"

\* C14: a user operation on a SockID that is not in the registry returns an
\* error to its caller and leaves the registry usable by other threads: no
\* calling thread is aborted and no registry lock is poisoned.
C14_LookupMissIsAnError ==
    /\ \A t \in Threads : th[t].pc # "panicked"
    /\ \A h \in Hosts : ~poisoned[h]

\* C15: no inbound segment, whatever its flags, sequence, acknowledgement
\* number and payload length, makes the receive worker abort: after
\* processing any segment the registry lock is still usable.
C15_ReceiveWorkerSurvives ==
    \A h \in Hosts : ~poisoned[h]

\* C16: for every socket in the registry send.unacked_seq <= send.next, in
\* every state including CLOSE-WAIT and LAST-ACK and for every
\* acknowledgement number a peer segment may carry.
C16_UnackedNotAboveNext ==
    \A h \in Hosts : \A sid \in DOMAIN sockets[h] :
        sockets[h][sid].send_param.unacked_seq <= sockets[h][sid].send_param.next

\* C17: for every socket in the registry recv.next <= recv.tail after every
\* handler step, including the steps that complete the handshake and the
\* steps that process a FIN.
C17_NextNotAboveTail ==
    \A h \in Hosts : \A sid \in DOMAIN sockets[h] :
        sockets[h][sid].recv_param.next <= sockets[h][sid].recv_param.tail

\* C18: after the pruning pass the ESTABLISHED and FIN-WAIT handlers run on
\* an accepted ACK (the step that raises send.unacked_seq in those states),
\* no entry left in the socket's retransmission queue has a sequence below
\* send.unacked_seq, also after retransmissions have moved entries from the
\* head to the tail of the queue.
C18_PrunedQueueIsUnacked ==
    [][\A h \in Hosts : \A sid \in DOMAIN sockets[h] \cap DOMAIN sockets'[h] :
          LET old == sockets[h][sid]
              new == sockets'[h][sid]
          IN (/\ old.status \in {"Established", "FinWait1", "FinWait2"}
              /\ new.send_param.unacked_seq > old.send_param.unacked_seq) =>
                 \A i \in DOMAIN new.retransmission_queue :
                    new.retransmission_queue[i].packet.seq >= new.send_param.unacked_seq]_vars

\* the sequence numbers a queued entry covers: its payload, or the one
\* number a SYN or a FIN consumes
Covers(e) ==
    IF e.packet.payload # <<>>
    THEN e.packet.seq .. (e.packet.seq + Len(e.packet.payload) - 1)
    ELSE {e.packet.seq}

\* the number of entries of the socket's retransmission queue that cover n
Coverage(socket, n) ==
    Cardinality({i \in DOMAIN socket.retransmission_queue :
                    n \in Covers(socket.retransmission_queue[i])})

\* C19 as stated: for every socket, in every state, each sequence number in
\* [send.unacked_seq, send.next) is covered by exactly one entry of the
\* retransmission queue: none is missing and none is covered twice.
C19_UnackedCoveredOnce ==
    \A h \in Hosts : \A sid \in DOMAIN sockets[h] :
        \A n \in sockets[h][sid].send_param.unacked_seq
                    .. (sockets[h][sid].send_param.next - 1) :
            Coverage(sockets[h][sid], n) = 1

\* C20: no thread is parked on the event condition variable while it holds
\* the registry lock: connect, accept, send, recv and close give the write
\* guard back before they enter wait_event, so that whenever no worker is
\* inside a handler the receive worker and the timer can take the lock,
\* whatever the user threads wait for.
C20_NoWaitUnderRegistryLock ==
    /\ \A t \in Threads : th[t].pc = "wait" => ~th[t].guard
    /\ \A h \in Hosts : (pub[h] = <<>> /\ ~poisoned[h]) => LockFree(h)

\* all three threads are blocked in wait_event at once, the client in send
\* on a closed window, and a segment is on its way to each host
C20_Witness ==
    /\ th["u1"].op = "send" /\ th["u1"].pc = "wait" /\ th["u1"].parked
    /\ th["u3"].op = "recv" /\ th["u3"].pc = "wait" /\ th["u3"].parked
    /\ Returned("u2", "accept")
    /\ \A h \in Hosts : LockFree(h) /\ \E p \in net : p.dst_addr = h

\* the socket of host h that the receive worker hands the segment p to by the
\* four-tuple lookup
Target(h, p) == SockID(h, p.src_addr, p.dest, p.src)

\* the step takes the segment p off the network for a socket of host h that
\* is in one of the states of S
Delivers(h, p, S) ==
    /\ p \in net /\ p \notin net'
    /\ p.dst_addr = h
    /\ Target(h, p) \in DOMAIN sockets[h]
    /\ sockets[h][Target(h, p)].status \in S

\* C21: a segment without the ACK flag that arrives at a socket in
\* ESTABLISHED, FIN-WAIT-1 or FIN-WAIT-2 is dropped, whatever its
\* acknowledgement field holds: the handler step leaves the socket
\* (send.unacked_seq, send.window, the retransmission queue, the receive
\* parameters, the receive buffer, the status) as it was, puts no segment on
\* the wire and publishes no event.
C21_UnflaggedSegmentIsDropped ==
    [][\A h \in Hosts : \A p \in net :
          (Delivers(h, p, {"Established", "FinWait1", "FinWait2"}) /\ ACK \notin p.flag) =>
              /\ sockets'[h] = sockets[h]
              /\ net' = net \ {p}
              /\ pub'[h] = <<>>]_vars

\* the states whose handler looks at the acknowledgement number
AckStates ==
    {"SynSent", "SynRcvd", "Established", "FinWait1", "FinWait2", "CloseWait", "LastAck"}

\* the acknowledgement number of p acknowledges something new of the socket
Acceptable(socket, p) ==
    socket.send_param.unacked_seq < p.ack /\ p.ack <= socket.send_param.next

\* C22: in SYN-SENT, SYN-RECEIVED, ESTABLISHED, FIN-WAIT-1, FIN-WAIT-2,
\* CLOSE-WAIT and LAST-ACK a handler step changes send.unacked_seq only when
\* the segment's acknowledgement number satisfies
\* send.unacked_seq < ack <= send.next, and then sets it to ack; for any other
\* acknowledgement number send.unacked_seq and the status stay as they were
\* (the status clause is stated for segments without FIN: a FIN moves the
\* status on its own account, whatever the segment acknowledges).
C22_OnlyAcceptableAckMovesUnacked ==
    [][\A h \in Hosts : \A p \in net :
          Delivers(h, p, AckStates) =>
              LET old == sockets[h][Target(h, p)]
                  new == sockets'[h][Target(h, p)]
              IN /\ new.send_param.unacked_seq # old.send_param.unacked_seq =>
                        Acceptable(old, p) /\ new.send_param.unacked_seq = p.ack
                 /\ ~Acceptable(old, p) =>
                        /\ new.send_param.unacked_seq = old.send_param.unacked_seq
                        /\ FIN \notin p.flag => new.status = old.status]_vars

\* the segment p reaches the reassembly step of the socket: it carries the
\* ACK flag and payload and does not acknowledge data that was never sent
Reassembled(socket, p) ==
    /\ ACK \in p.flag
    /\ p.payload # <<>>
    /\ p.ack <= socket.send_param.next

\* C23: a data segment whose sequence is below recv.next is dropped by the
\* reassembly step: the handler step leaves the receive buffer, recv.next,
\* recv.tail and recv.window as they were, the receive worker goes on, and a
\* duplicate ACK carrying ack = recv.next is on the wire after the step.
C23_OldDataIsDroppedWithDuplicateAck ==
    [][\A h \in Hosts : \A p \in net :
          (/\ Delivers(h, p, {"Established", "FinWait1", "FinWait2"})
           /\ Reassembled(sockets[h][Target(h, p)], p)
           /\ FIN \notin p.flag
           /\ p.seq < sockets[h][Target(h, p)].recv_param.next) =>
              LET old == sockets[h][Target(h, p)]
                  new == sockets'[h][Target(h, p)]
              IN /\ new.recv_buffer = old.recv_buffer
                 /\ new.recv_param = old.recv_param
                 /\ ~poisoned'[h]
                 /\ \E q \in net' : /\ q.src_addr = h /\ q.dst_addr = p.src_addr
                                     /\ q.flag = {ACK} /\ q.payload = <<>>
                                     /\ q.ack = old.recv_param.next]_vars

\* C24: connect returns a SockID only when that socket is ESTABLISHED, and
\* whenever a socket created by connect (one without a listening socket)
\* becomes ESTABLISHED, directly from SYN-SENT or through SYN-RECEIVED,
\* the step publishes ConnectionCompleted on the socket's own SockID, which
\* is the event the blocked connect call waits for.
C24_ConnectCompletesOnEveryPath ==
    [][/\ \A t \in Threads :
             (Returned(t, "connect")' /\ ~Returned(t, "connect")) =>
                 /\ Got(t)' \in DOMAIN sockets'[th[t].host]
                 /\ sockets'[th[t].host][Got(t)'].status = "Established"
       /\ \A h \in Hosts : \A sid \in DOMAIN sockets[h] \cap DOMAIN sockets'[h] :
             (/\ sockets[h][sid].listening_socket = None
              /\ sockets[h][sid].status \in {"SynSent", "SynRcvd"}
              /\ sockets'[h][sid].status = "Established") =>
                 TCPEvent(sid, "ConnectionCompleted") \in Range(pub'[h])]_vars

\* the local port of the socket the connect call of thread t has built
ConnectPort(t) ==
    IF th[t].socket # None THEN The(th[t].socket).sock_id.local_port
    ELSE th[t].sock_id.local_port

\* C25: two connect calls on the same TCP object never hold the same local
\* port: the port select_unused_port returned to one of them is not the
\* local port of the socket the other has built or inserted, so that neither
\* call's insert replaces the registry entry of the other.
C25_ConcurrentConnectsGetDistinctPorts ==
    \A t, u \in Threads :
        (/\ t # u
         /\ th[t].host = th[u].host
         /\ th[t].op = "connect" /\ th[u].op = "connect") =>
            ConnectPort(t) # ConnectPort(u)

====
